---- MODULE Spec2Model ----
(***************************************************************************)
(* RFEITuner (python/tvm/autotvm/tuner/rfei_tuner.py): construction of the *)
(* tuner (cost model, optimizer selection, hand-over to ModelBasedTuner)   *)
(* and tune(), which runs the base tuning loop and then closes the cost    *)
(* model's worker pool.  The base loop, the cost model and its pool are    *)
(* collaborators whose code lives outside rfei_tuner.py; they are modelled *)
(* at their boundary as the specification describes them.                  *)
(***************************************************************************)
EXTENDS Integers, Sequences, FiniteSets, TLC

\* ---------------------------------------------------------------- bounds
MaxPlanSize    == 3
MaxLogInterval == 2
MaxParallel    == 1
MaxTrials      == 3
SpaceSize      == 4
MaxScore       == 2
MaxTuneCalls   == 2

\* ------------------------------------------------------- python values
None == -1          \* Python None for the int-or-None parameters
FAIL == 0           \* failure marker returned by the measurement collaborator
Sentinel == 0       \* best-found value while nothing has succeeded

Str(s) == [type |-> "str", name |-> s, parallel_size |-> 0, log_interval |-> 0]

Obj(t, n, p) == [type |-> t, name |-> n, parallel_size |-> p, log_interval |-> 0]

\* the values a caller may pass as `optimizer`
OptimizerValues ==
    {Str("sa"), Str("ga"), Obj("object", "int", 0)}
        \cup {Obj("ModelOptimizer", "custom", p) : p \in 1..MaxParallel}

isinstance_ModelOptimizer(x) == x.type = "ModelOptimizer"

SimulatedAnnealingOptimizer(log_interval, parallel_size) ==
    [type |-> "ModelOptimizer", name |-> "SimulatedAnnealingOptimizer",
     parallel_size |-> parallel_size, log_interval |-> log_interval]

\* no cost model object exists
NoCostModel == [exists |-> FALSE, feature_type |-> "", num_threads |-> None,
                log_interval |-> 0, pool |-> "none"]

\* RFEICostModel(...): the instance owns a worker pool from creation on
RFEICostModel(feature_type, num_threads, log_interval) ==
    [exists |-> TRUE, feature_type |-> feature_type, num_threads |-> num_threads,
     log_interval |-> log_interval, pool |-> "open"]

\* cost_model._close_pool()
close_pool(cm) == [cm EXCEPT !.pool = "closed"]

\* ModelBasedTuner.__init__ has not run
NoBase == [reached |-> FALSE, cost_model |-> NoCostModel, optimizer |-> Str(""),
           plan_size |-> 0, diversity_filter_ratio |-> None,
           uncertainty_aware |-> FALSE]

\* ModelBasedTuner.__init__(task, cost_model, optimizer, plan_size, ratio, ua)
ModelBasedTuner_init(cost_model, optimizer, plan_size, ratio, ua) ==
    [reached |-> TRUE, cost_model |-> cost_model, optimizer |-> optimizer,
     plan_size |-> plan_size, diversity_filter_ratio |-> ratio,
     uncertainty_aware |-> ua]

NoArgs == [plan_size |-> 0, feature_type |-> "", num_threads |-> None,
           optimizer |-> Str(""), diversity_filter_ratio |-> None,
           log_interval |-> 0, uncertainty_aware |-> FALSE]

\* ------------- faulty variants of RFEITuner.__init__ (sensitivity checks)
RFEITuner_init_unchecked(a) ==
    LET cost_model == RFEICostModel(a.feature_type, a.num_threads, a.log_interval \div 2)
        optimizer == IF a.optimizer = Str("sa")
                     THEN SimulatedAnnealingOptimizer(a.log_interval, a.plan_size * 2)
                     ELSE a.optimizer
    IN [raised |-> FALSE, cost_model |-> cost_model,
        base |-> ModelBasedTuner_init(cost_model, optimizer, a.plan_size,
                                      a.diversity_filter_ratio, a.uncertainty_aware)]

RFEITuner_init_always_sa(a) ==
    LET cost_model == RFEICostModel(a.feature_type, a.num_threads, a.log_interval \div 2)
        optimizer == SimulatedAnnealingOptimizer(a.log_interval, a.plan_size * 2)
    IN IF a.optimizer # Str("sa") /\ ~isinstance_ModelOptimizer(a.optimizer)
       THEN [raised |-> TRUE, cost_model |-> cost_model, base |-> NoBase]
       ELSE [raised |-> FALSE, cost_model |-> cost_model,
             base |-> ModelBasedTuner_init(cost_model, optimizer, a.plan_size,
                                           a.diversity_filter_ratio, a.uncertainty_aware)]

RFEITuner_init_small_pool(a) ==
    LET cost_model == RFEICostModel(a.feature_type, a.num_threads, a.log_interval \div 2)
        optimizer == IF a.optimizer = Str("sa")
                     THEN SimulatedAnnealingOptimizer(a.log_interval, a.plan_size)
                     ELSE a.optimizer
    IN IF a.optimizer # Str("sa") /\ ~isinstance_ModelOptimizer(a.optimizer)
       THEN [raised |-> TRUE, cost_model |-> cost_model, base |-> NoBase]
       ELSE [raised |-> FALSE, cost_model |-> cost_model,
             base |-> ModelBasedTuner_init(cost_model, optimizer, a.plan_size,
                                           a.diversity_filter_ratio, a.uncertainty_aware)]

RFEITuner_init_wrong_plan(a) ==
    LET cost_model == RFEICostModel(a.feature_type, a.num_threads, a.log_interval \div 2)
        optimizer == IF a.optimizer = Str("sa")
                     THEN SimulatedAnnealingOptimizer(a.log_interval, a.plan_size * 2)
                     ELSE a.optimizer
    IN IF a.optimizer # Str("sa") /\ ~isinstance_ModelOptimizer(a.optimizer)
       THEN [raised |-> TRUE, cost_model |-> cost_model, base |-> NoBase]
       ELSE [raised |-> FALSE, cost_model |-> cost_model,
             base |-> ModelBasedTuner_init(cost_model, optimizer, a.plan_size * 2,
                                           a.diversity_filter_ratio, a.uncertainty_aware)]

\* ------------------------------------------------------ RFEITuner.__init__
\* The outcome of the constructor for the argument record a: the cost model is
\* created first, then the optimizer is selected or checked, then the base
\* tuner is initialised.  A failed assertion leaves the constructor before the
\* base initialisation; the cost model created on the first line stays as is.
RFEITuner_init(a) ==
    LET cost_model == RFEICostModel(a.feature_type, a.num_threads, a.log_interval \div 2)
        optimizer == IF a.optimizer = Str("sa")
                     THEN SimulatedAnnealingOptimizer(a.log_interval, a.plan_size * 2)
                     ELSE a.optimizer
    IN IF a.optimizer # Str("sa") /\ ~isinstance_ModelOptimizer(a.optimizer)
       THEN [raised |-> TRUE, cost_model |-> cost_model, base |-> NoBase]
       ELSE [raised |-> FALSE, cost_model |-> cost_model,
             base |-> ModelBasedTuner_init(cost_model, optimizer, a.plan_size,
                                           a.diversity_filter_ratio, a.uncertainty_aware)]

\* ------ RFEITuner.tune exits (first a faulty variant, then the code)
tune_exit_no_close(cm, outcome) == [cost_model |-> cm, closes |-> 0]

\* What tune() does once super().tune() has left the base loop: on a normal
\* return it calls _close_pool() on the cost model, a raised exception
\* propagates past the close statement.
tune_exit(cm, outcome) ==
    IF outcome = "return"
    THEN [cost_model |-> close_pool(cm), closes |-> 1]
    ELSE [cost_model |-> cm, closes |-> 0]

\* ----------------------------------------------------------------- state
VARIABLES
    pc,           \* "new" | "ready" | "rejected" | "tuning" | "returned" | "aborted"
    args,         \* the arguments the constructor was called with
    cost_model,   \* the RFEICostModel created by the constructor
    base,         \* what ModelBasedTuner.__init__ received
    loop,         \* base loop: IDLE | PLANNING | AWAITING_MEASUREMENT | UPDATING | DONE
    plan,         \* candidates of the current plan not yet measured
    shortlist,    \* size of the candidate shortlist of the current plan
    pending,      \* the measurement result being folded in
    sinceRefit,   \* accepted results since the last refit
    trials,       \* trials of the current tune() call
    n_trial,      \* trial budget of the current tune() call
    visited,      \* measured configurations (length of History)
    best,         \* best score found, Sentinel if none
    fits,         \* cost-model fits of the current tune() call
    plans,        \* plans produced in the current tune() call
    failures,     \* failure markers recorded by the current tune() call
    allFailed,    \* every measurement made on this tuner returned FAIL
    closeCalls,   \* _close_pool() invocations made by the current call
    lateCalls,    \* fit / feature-extraction calls issued on a released pool
    tuneCalls     \* tune() calls made on the tuner

vars == <<pc, args, cost_model, base, loop, plan, shortlist, pending, sinceRefit,
          trials, n_trial, visited, best, fits, plans, failures, allFailed,
          closeCalls, lateCalls, tuneCalls>>

loopVars == <<loop, plan, shortlist, pending, sinceRefit, trials, n_trial,
              visited, best, fits, plans, failures, allFailed>>

ArgValues ==
    [plan_size : 1..MaxPlanSize,
     feature_type : {"itervar", "knob"},
     num_threads : {None},
     optimizer : OptimizerValues,
     diversity_filter_ratio : {None, 2},
     log_interval : 0..MaxLogInterval,
     uncertainty_aware : BOOLEAN]

Init ==
    /\ pc = "new"
    /\ args = NoArgs
    /\ cost_model = NoCostModel
    /\ base = NoBase
    /\ loop = "IDLE"
    /\ plan = 0
    /\ shortlist = 0
    /\ pending = FAIL
    /\ sinceRefit = 0
    /\ trials = 0
    /\ n_trial = 0
    /\ visited = 0
    /\ best = Sentinel
    /\ fits = 0
    /\ plans = 0
    /\ failures = 0
    /\ allFailed = TRUE
    /\ closeCalls = 0
    /\ lateCalls = 0
    /\ tuneCalls = 0

\* RFEITuner(task, plan_size, feature_type, num_threads, optimizer, ...)
Construct ==
    /\ pc = "new"
    /\ \E a \in ArgValues :
         LET r == RFEITuner_init(a) IN
           /\ args' = a
           /\ cost_model' = r.cost_model
           /\ base' = r.base
           /\ pc' = IF r.raised THEN "rejected" ELSE "ready"
    /\ UNCHANGED <<loopVars, closeCalls, lateCalls, tuneCalls>>

Min(x, y) == IF x <= y THEN x ELSE y

\* a fit or feature-extraction call on the cost model; counted when the pool
\* has already been released
late(cm) == IF cm.pool = "closed" THEN 1 ELSE 0

\* tuner.tune(n_trial, ...): enters super().tune(); IDLE -> PLANNING
TuneStart ==
    /\ pc \in {"ready", "returned", "aborted"}
    /\ tuneCalls < MaxTuneCalls
    /\ \E n \in 1..MaxTrials : n_trial' = n
    /\ pc' = "tuning"
    /\ tuneCalls' = tuneCalls + 1
    /\ loop' = "PLANNING"
    /\ trials' = 0
    /\ sinceRefit' = 0
    /\ fits' = 0
    /\ plans' = 0
    /\ plan' = 0
    /\ shortlist' = 0
    /\ pending' = FAIL
    /\ failures' = 0
    /\ closeCalls' = 0
    /\ UNCHANGED <<args, cost_model, base, visited, best, allFailed, lateCalls>>

\* PLANNING: optimizer, then the diversity filter when a ratio is set
Plan ==
    /\ pc = "tuning" /\ loop = "PLANNING"
    /\ IF visited >= SpaceSize
       THEN /\ loop' = "DONE"
            /\ UNCHANGED <<plan, shortlist, plans, lateCalls>>
       ELSE /\ plan' = Min(base.plan_size, SpaceSize - visited)
            /\ shortlist' = IF base.diversity_filter_ratio # None
                            THEN base.plan_size * base.diversity_filter_ratio
                            ELSE base.plan_size
            /\ plans' = plans + 1
            /\ lateCalls' = lateCalls + late(cost_model)
            /\ loop' = "AWAITING_MEASUREMENT"
    /\ UNCHANGED <<pc, args, cost_model, base, pending, sinceRefit, trials, n_trial,
                   visited, best, fits, failures, allFailed, closeCalls, tuneCalls>>

\* AWAITING_MEASUREMENT: the collaborator resolves the next candidate
Measure ==
    /\ pc = "tuning" /\ loop = "AWAITING_MEASUREMENT"
    /\ plan > 0
    /\ \E r \in {FAIL} \cup (1..MaxScore) : pending' = r
    /\ plan' = plan - 1
    /\ loop' = "UPDATING"
    /\ UNCHANGED <<pc, args, cost_model, base, shortlist, sinceRefit, trials, n_trial,
                   visited, best, fits, plans, failures, allFailed, closeCalls,
                   lateCalls, tuneCalls>>

\* UPDATING: record the result, update best and the counters; at plan_size
\* accepted results refit the cost model
Update ==
    /\ pc = "tuning" /\ loop = "UPDATING"
    /\ visited' = visited + 1
    /\ trials' = trials + 1
    /\ best' = IF pending # FAIL /\ pending > best THEN pending ELSE best
    /\ failures' = IF pending = FAIL THEN failures + 1 ELSE failures
    /\ allFailed' = (allFailed /\ pending = FAIL)
    /\ LET refit == (sinceRefit + 1 = base.plan_size) IN
         /\ sinceRefit' = IF refit THEN 0 ELSE sinceRefit + 1
         /\ fits' = IF refit THEN fits + 1 ELSE fits
         /\ lateCalls' = IF refit THEN lateCalls + late(cost_model) ELSE lateCalls
         /\ loop' = IF trials + 1 >= n_trial \/ visited + 1 >= SpaceSize THEN "DONE"
                    ELSE IF refit THEN "PLANNING"
                    ELSE "AWAITING_MEASUREMENT"
    /\ UNCHANGED <<pc, args, cost_model, base, plan, shortlist, pending, n_trial,
                   plans, closeCalls, tuneCalls>>

\* super().tune() returns; tune() closes the pool and returns
TuneReturn ==
    /\ pc = "tuning" /\ loop = "DONE"
    /\ cost_model' = tune_exit(cost_model, "return").cost_model
    /\ closeCalls' = closeCalls + tune_exit(cost_model, "return").closes
    /\ pc' = "returned"
    /\ loop' = "IDLE"
    /\ UNCHANGED <<args, base, plan, shortlist, pending, sinceRefit, trials, n_trial,
                   visited, best, fits, plans, failures, allFailed, lateCalls,
                   tuneCalls>>

\* an exception or a cancellation raised inside super().tune() leaves tune()
TuneAbort ==
    /\ pc = "tuning" /\ loop # "DONE"
    /\ cost_model' = tune_exit(cost_model, "raise").cost_model
    /\ closeCalls' = closeCalls + tune_exit(cost_model, "raise").closes
    /\ pc' = "aborted"
    /\ loop' = "IDLE"
    /\ UNCHANGED <<args, base, plan, shortlist, pending, sinceRefit, trials, n_trial,
                   visited, best, fits, plans, failures, allFailed, lateCalls,
                   tuneCalls>>

LoopStep == Plan \/ Measure \/ Update \/ TuneReturn

Next == Construct \/ TuneStart \/ Plan \/ Measure \/ Update \/ TuneReturn \/ TuneAbort

Spec == Init /\ [][Next]_vars

\* the base loop is a sequential loop of the calling thread: it keeps running
\* until it returns or is aborted
FairSpec == Spec /\ WF_vars(LoopStep)

\* ------------------------------------------------------------ properties
InvalidOptimizer(o) == o # Str("sa") /\ ~isinstance_ModelOptimizer(o)

Terminated == pc \in {"returned", "aborted"}

\* C1: a constructor call whose optimizer is neither "sa" nor a ModelOptimizer
\* raises inside the constructor: the base initialisation is not reached, no
\* tuner becomes usable and no tune() call ever starts on it.
C1_InvalidOptimizerRejectedAtConstruction ==
    (pc # "new" /\ InvalidOptimizer(args.optimizer))
        => (pc = "rejected" /\ ~base.reached /\ tuneCalls = 0)

C1_Witness == pc = "rejected" /\ args.optimizer = Str("ga") /\ ~base.reached

\* C2: in every state in which tune() has terminated, by return or by an
\* exception raised inside the base loop, the cost model's pool is closed.
C2_PoolClosedOnEveryExit == Terminated => cost_model.pool = "closed"

\* C3: a tune() call that returns has invoked _close_pool() exactly once, and
\* not before its base loop finished: no close while the loop is running.
C3_CloseOnceAfterLoop ==
    /\ pc = "tuning" => closeCalls = 0
    /\ pc = "returned" => (closeCalls = 1 /\ cost_model.pool = "closed")

C3_Witness == pc = "returned" /\ closeCalls = 1 /\ trials = MaxTrials /\ fits >= 1

\* C4: once the pool has been released no fit or feature-extraction call is
\* issued on the cost model, whatever is done with the tuner afterwards.
C4_NoModelCallAfterRelease == lateCalls = 0

\* C5: the constructor hands plan_size to the base tuner unchanged and the
\* loop refits exactly at every plan_size-th accepted result: a plan exists
\* from the start, and each refit is followed by a new plan.
C5_RefitCadenceIsPlanSize ==
    (pc = "tuning" \/ Terminated) =>
        /\ base.plan_size = args.plan_size
        /\ fits = trials \div args.plan_size
        /\ sinceRefit = trials % args.plan_size
        /\ loop \in {"AWAITING_MEASUREMENT", "UPDATING"} => plans = fits + 1
        /\ loop = "PLANNING" => plans = fits

C5_Witness ==
    /\ pc = "tuning" /\ loop = "AWAITING_MEASUREMENT"
    /\ args.plan_size = 2 /\ trials = 2 /\ fits = 1 /\ plans = 2

\* C6: with the built-in optimizer, log_interval 0 configures the cost model
\* and the optimizer with interval 0, and every log_interval >= 1 configures
\* both with a non-zero interval.
C6_LogIntervalEnablesOutput ==
    (base.reached /\ args.optimizer = Str("sa")) =>
        /\ args.log_interval = 0 =>
             (cost_model.log_interval = 0 /\ base.optimizer.log_interval = 0)
        /\ args.log_interval >= 1 =>
             (cost_model.log_interval # 0 /\ base.optimizer.log_interval # 0)

\* C7: when every measurement fails, a tune() call that is not cancelled
\* returns: the failures are counted as trials up to the budget (or the end
\* of the space), best stays the sentinel and the pool is closed; and every
\* tune() call terminates.
C7_AllFailuresStillTerminate ==
    /\ [](allFailed =>
            /\ best = Sentinel
            /\ pc = "tuning" => (failures = trials /\ trials <= n_trial)
            /\ pc = "returned" =>
                 /\ failures = trials
                 /\ trials = n_trial \/ visited = SpaceSize
                 /\ cost_model.pool = "closed")
    /\ (pc = "tuning") ~> Terminated

C7_Witness ==
    /\ pc = "returned" /\ allFailed /\ trials = n_trial /\ n_trial = MaxTrials
    /\ failures = MaxTrials /\ best = Sentinel

\* C8: "sa" gives the base tuner a SimulatedAnnealingOptimizer, a
\* ModelOptimizer object is handed over as it is, and plan_size,
\* diversity_filter_ratio and uncertainty_aware arrive as given; with the
\* ratio unset the plan's shortlist is the plain plan.
C8_OptimizerSelection ==
    base.reached =>
        /\ args.optimizer = Str("sa") =>
             /\ base.optimizer.name = "SimulatedAnnealingOptimizer"
             /\ isinstance_ModelOptimizer(base.optimizer)
        /\ isinstance_ModelOptimizer(args.optimizer) => base.optimizer = args.optimizer
        /\ base.plan_size = args.plan_size
        /\ base.diversity_filter_ratio = args.diversity_filter_ratio
        /\ base.uncertainty_aware = args.uncertainty_aware
        /\ (args.diversity_filter_ratio = None /\ plans > 0) => shortlist = args.plan_size

C8_Witness ==
    /\ base.reached /\ args.optimizer.name = "custom"
    /\ base.optimizer = args.optimizer
    /\ args.diversity_filter_ratio = None /\ plans > 0

\* C9: a rejected construction leaves no cost model with an open pool.
C9_NoPoolLeakOnRejection == pc = "rejected" => cost_model.pool # "open"

\* C10: the built-in optimizer has 2 * plan_size walkers, at least as many as
\* the plan has slots; a supplied optimizer keeps its parallel_size.
C10_WalkerPoolSize ==
    base.reached =>
        /\ args.optimizer = Str("sa") =>
             /\ base.optimizer.parallel_size = 2 * args.plan_size
             /\ base.optimizer.parallel_size >= base.plan_size
        /\ isinstance_ModelOptimizer(args.optimizer) =>
             base.optimizer.parallel_size = args.optimizer.parallel_size

C10_Witness ==
    /\ base.reached /\ args.optimizer = Str("sa")
    /\ args.plan_size = MaxPlanSize /\ base.optimizer.parallel_size = 2 * MaxPlanSize

====
